---- MODULE Spec2Model ----
(***************************************************************************)
(* Model of src/github_services.py: the credential guard, the overdue      *)
(* reviewer scan with its two REST pagination loops, the discussion        *)
(* lookup and the comment deletion / posting operations.                   *)
(*                                                                         *)
(* One operation runs at a time (the module is sequential).  pc is the     *)
(* position of the running operation: every network request is one step,   *)
(* whose response is chosen by the server (nondeterministically).          *)
(***************************************************************************)
EXTENDS Integers, Sequences, FiniteSets, TLC

(***************************************************************************)
(* Bounds of the model.                                                    *)
(***************************************************************************)
\* Pull requests the server lists during one scan (over all pages).
MaxPRs == 2
\* Events the server holds in one pull request's timeline (over all pages).
MaxEvents == 2
\* Resolution of the clock: ticks per second (datetime has 10^6).
TicksPerSecond == 2
\* Categories or discussions in one GraphQL answer.
MaxNodes == 2
\* Comments in one GraphQL answer (the query asks for the first 50).
MaxComments == 3

(***************************************************************************)
(* Program constants.                                                      *)
(***************************************************************************)
DELETE_COMMENTS_BEFORE_IN_DAYS == 60
SecondsPerHour == 3600
HoursPerDay == 24

None == "None"
Users == {"alice", "bob"}
Tokens == {"tokenA"}
\* The names of the categories of the repository, and the one asked for.
CategoryNames == {"Reviews", "reviews"}
RequestedCategories == {"Reviews"}
CategoryIds == {"cat1", "cat2"}
\* The titles of the discussions of the repository, and the one asked for.
Titles == {"Pending", "Pending "}
RequestedTitles == {"Pending"}
DiscussionIds == {"disc1", "disc2"}
CommentIds == {"cmt1", "cmt2"}
Messages == {"hello"}
\* Creation times of events and comments, in whole seconds.
Seconds == {0, 1}
\* Offsets, in ticks, of the clock readings from their base instant.
ClockOffsets == {0, 1}
PRNumbers == 1..MaxPRs
WaitingHours == {1}

SeqsUpTo(S, n) == UNION {[1..k -> S] : k \in 0..n}

(***************************************************************************)
(* Time.  An instant (datetime) is a number of ticks; an ISO-8601 string   *)
(* of the GitHub API ("2023-01-01T00:00:00Z") has whole-second resolution  *)
(* and is represented by its number of seconds.  Strings of this fixed     *)
(* width format compare lexicographically as their seconds compare.        *)
(***************************************************************************)
\* datetime.timedelta(hours=h)
timedelta_hours(h) == h * SecondsPerHour * TicksPerSecond
\* datetime.timedelta(days=d)
timedelta_days(d) == d * HoursPerDay * SecondsPerHour * TicksPerSecond
\* dateutil parser.parse of an ISO string: the instant of that second.
parse(s) == s * TicksPerSecond
\* strftime('%Y-%m-%dT%H:%M:%SZ'): the sub-second part is dropped.
strftime(t) == t \div TicksPerSecond

\* Values datetime.datetime.now(utc) returns during a scan: around one
\* hour (the waiting threshold) after the epoch.
ScanClock == {timedelta_hours(1) + d : d \in ClockOffsets}
\* Values it returns during a deletion: around the retention period plus
\* one second after the epoch.
DeleteClock ==
    {timedelta_days(DELETE_COMMENTS_BEFORE_IN_DAYS) + parse(1) + d :
        d \in ClockOffsets}

\* _get_past_time(days): now - days, formatted to whole seconds.
_get_past_time_of_now(clock, days) == strftime(clock)
_get_past_time(clock, days) == strftime(clock - timedelta_days(days))

(***************************************************************************)
(* The data of the REST API.                                               *)
(***************************************************************************)
\* An assignee of a listed pull request: no 'created_at' key yet (<<>>).
AssigneeDicts == [login : Users, created_at : {<<>>}]
\* The assignees of a pull request are distinct users.
AssigneeLists ==
    {a \in SeqsUpTo(AssigneeDicts, Cardinality(Users)) :
        \A i, j \in DOMAIN a : i # j => a[i].login # a[j].login}
PRDicts == [number : PRNumbers, user : Users, assignees : AssigneeLists]
\* A page of the pull request list: distinct pull requests, newest first.
PRPages(n) ==
    {p \in SeqsUpTo(PRDicts, n) :
        \A i, j \in DOMAIN p : i < j => p[i].number > p[j].number}
AssignedEvents == [event : {"assigned"}, login : Users, created_at : Seconds]
\* An event of another kind: it has no assignee, its time is never read.
OtherEvents == {[event |-> "labeled", login |-> "", created_at |-> 0]}
Events == AssignedEvents \cup OtherEvents

(***************************************************************************)
(* The data of the GraphQL API.                                            *)
(***************************************************************************)
Categories == [id : CategoryIds, name : CategoryNames]
Discussions == [id : DiscussionIds, title : Titles, number : 1..2]
Comments == [id : CommentIds, createdAt : Seconds]

VARIABLES
    token,        \* _TOKEN
    follows_op,   \* whether the call before this one was of an operation
                  \* that issued requests (kept to tell the calls apart)
    pc,           \* position of the running operation, "idle" when none runs
    op,           \* the top-level operation called last
    args,         \* its arguments
    requests,     \* the network requests it has issued, in order
    outcome,      \* "none" while it runs, then "returned" or "raised"
    error,        \* the exception raised: [type, detail]
    retval,       \* the value returned
    now,          \* the last value read from datetime.now in this operation
    page_number,  \* get_prs_assigned_to_reviewers: page_number
    pr_subset,    \*   pr_subset
    pull_requests,\*   pull_requests (the objects built so far for this page)
    pr_idx,       \*   position of the evaluation loop: pull request
    rev_idx,      \*   position of the evaluation loop: reviewer
    reviewer_to_assigned_prs,
    t_page,       \* get_pull_request_object_from_dict: page_number
    pr_dict,      \*   pr_dict (mutated in place)
    updated,      \*   whether updated_pr_dict is bound
    timeline,     \*   the events fetched so far for this pull request
    response,     \* the nodes of the last GraphQL answer
    category_id,  \* _get_discussion_data: category_id
    discussion_id,
    discussion_number,
    comment_ids,  \* delete_discussion_comments: comment_ids
    del_idx       \*   position of the deletion loop

ctl == <<pc, op, args, requests, outcome, error, retval, now>>
scan_vars == <<page_number, pr_subset, pull_requests, pr_idx, rev_idx,
               reviewer_to_assigned_prs>>
tl_vars == <<t_page, pr_dict, updated, timeline>>
disc_vars == <<response, category_id, discussion_id, discussion_number,
               comment_ids, del_idx>>
vars == <<token, follows_op, ctl, scan_vars, tl_vars, disc_vars>>

NoError == [type |-> "", detail |-> ""]
NoArgs ==
    [token |-> None, hours |-> 0, category |-> "", title |-> "",
     message |-> ""]
NoPR == [number |-> 0, user |-> "", assignees |-> <<>>]
EmptyMapping == [u \in Users |-> <<>>]

\* A request of the log.  number: the pull request or discussion number;
\* id: the category, discussion or comment id sent; body: the message sent.
\* status: the HTTP status; data: whether the body holds the queried data;
\* count: the number of items in the body.
Request(kind, page, number, id, body, status, data, count) ==
    [kind |-> kind, page |-> page, number |-> number, id |-> id,
     body |-> body, status |-> status, data |-> data, count |-> count]

RECURSIVE ItemsServed(_, _)
\* The number of items the server has returned to the requests of a kind.
ItemsServed(reqs, kind) ==
    IF reqs = <<>> THEN 0
    ELSE (IF Head(reqs).kind = kind THEN Head(reqs).count ELSE 0)
         + ItemsServed(Tail(reqs), kind)

(***************************************************************************)
(* init_service and the check_token guard.                                 *)
(***************************************************************************)
Init ==
    /\ token = None
    /\ follows_op = FALSE
    /\ pc = "idle" /\ op = "" /\ args = NoArgs /\ requests = <<>>
    /\ outcome = "none" /\ error = NoError /\ retval = <<>> /\ now = 0
    /\ page_number = 1 /\ pr_subset = <<>> /\ pull_requests = <<>>
    /\ pr_idx = 0 /\ rev_idx = 0 /\ reviewer_to_assigned_prs = EmptyMapping
    /\ t_page = 1 /\ pr_dict = NoPR /\ updated = FALSE /\ timeline = <<>>
    /\ response = <<>> /\ category_id = None /\ discussion_id = None
    /\ discussion_number = 0 /\ comment_ids = <<>> /\ del_idx = 0

\* The locals of a fresh call: every frame starts empty.
FrameKeepingMapping ==
    /\ requests' = <<>> /\ retval' = <<>> /\ now' = 0
    /\ page_number' = 1 /\ pr_subset' = <<>> /\ pull_requests' = <<>>
    /\ pr_idx' = 0 /\ rev_idx' = 0
    /\ UNCHANGED reviewer_to_assigned_prs
    /\ t_page' = 1 /\ updated' = FALSE /\ timeline' = <<>>
    /\ response' = <<>> /\ category_id' = None /\ discussion_id' = None
    /\ discussion_number' = 0 /\ comment_ids' = <<>> /\ del_idx' = 0
FreshFrame ==
    /\ requests' = <<>> /\ retval' = <<>> /\ now' = 0
    /\ page_number' = 1 /\ pr_subset' = <<>> /\ pull_requests' = <<>>
    /\ pr_idx' = 0 /\ rev_idx' = 0 /\ reviewer_to_assigned_prs' = EmptyMapping
    /\ t_page' = 1 /\ updated' = FALSE /\ timeline' = <<>>
    /\ response' = <<>> /\ category_id' = None /\ discussion_id' = None
    /\ discussion_number' = 0 /\ comment_ids' = <<>> /\ del_idx' = 0

\* check_token: the decorated function runs only with a stored credential.
check_token_skipped(tok) == TRUE
check_token(tok) == tok # None

\* The call of a decorated operation: without a credential it raises at
\* once, otherwise its body starts at position start.
Call(name, a, dict, start) ==
    /\ pc = "idle"
    /\ op' = name /\ args' = a /\ pr_dict' = dict
    /\ FreshFrame
    /\ follows_op' = (requests # <<>>)
    /\ UNCHANGED token
    /\ IF check_token(token)
       THEN pc' = start /\ outcome' = "none" /\ error' = NoError
       ELSE /\ pc' = "idle"
            /\ outcome' = "raised"
            /\ error' = [type |-> "NotInitialized", detail |-> ""]

\* The guard of init_service: token is None or token == ''.
token_is_rejected_when_absent(t) == t = None
token_is_rejected(t) == t = None \/ t = ""

\* init_service(token): an absent or empty token is rejected with an
\* error before the global is assigned, any other token is stored.
init_service ==
    /\ pc = "idle"
    /\ \E t \in Tokens \cup {None, ""} :
        /\ op' = "init_service"
        /\ args' = [NoArgs EXCEPT !.token = t]
        /\ pr_dict' = NoPR
        /\ FreshFrame
        /\ follows_op' = FALSE
        /\ pc' = "idle"
        /\ IF token_is_rejected(t)
           THEN /\ outcome' = "raised"
                /\ error' = [type |-> "InvalidToken", detail |-> ""]
                /\ UNCHANGED token
           ELSE /\ outcome' = "returned"
                /\ error' = NoError
                /\ token' = t

\* An exception leaves the operation; a return ends it.
Raise(type, detail) ==
    /\ pc' = "idle" /\ outcome' = "raised"
    /\ error' = [type |-> type, detail |-> detail]
    /\ UNCHANGED retval
Return(v) ==
    /\ pc' = "idle" /\ outcome' = "returned" /\ retval' = v
    /\ UNCHANGED error
\* What leaving the scan discards: the loop variables of its frames.  The
\* mapping built so far, the dictionary being reconciled (the caller's
\* object, mutated in place) and the events fetched for it stay visible.
DiscardFrame ==
    /\ page_number' = 1 /\ pr_subset' = <<>> /\ pull_requests' = <<>>
    /\ pr_idx' = 0 /\ rev_idx' = 0 /\ t_page' = 1 /\ updated' = FALSE

\* response.raise_for_status(): raises on a non-success status.
raise_for_status_ignored(status) == FALSE
raise_for_status(status) == status # "ok"

(***************************************************************************)
(* github_domain (not in src/): the pull request object is a plain record  *)
(* built from the reconciled dictionary.                                   *)
(***************************************************************************)
\* PullRequest.from_github_response
from_github_response(dict) ==
    [number |-> dict.number,
     author_username |-> dict.user,
     assignees |-> [k \in DOMAIN dict.assignees |->
         [username |-> dict.assignees[k].login,
          assigned_on_timestamp |-> dict.assignees[k].created_at]]]
\* PullRequest.is_reviewer_assigned
is_reviewer_assigned(pr) == Len(pr.assignees) > 0

(***************************************************************************)
(* get_pull_request_object_from_dict: the timeline reconciliation.         *)
(***************************************************************************)
\* get_pull_request_dict_with_timestamp(pr_dict, event): every assignee
\* with the login of the event gets the parsed creation time of the event.
first_assignment_wins(dict, event) ==
    [dict EXCEPT !.assignees = [k \in DOMAIN dict.assignees |->
        IF event.login = dict.assignees[k].login
           /\ dict.assignees[k].created_at = <<>>
        THEN [dict.assignees[k] EXCEPT
                 !.created_at = <<parse(event.created_at)>>]
        ELSE dict.assignees[k]]]
timestamp_every_assignee(dict, event) ==
    [dict EXCEPT !.assignees = [k \in DOMAIN dict.assignees |->
        [dict.assignees[k] EXCEPT
            !.created_at = <<parse(event.created_at)>>]]]
get_pull_request_dict_with_timestamp(dict, event) ==
    [dict EXCEPT !.assignees = [k \in DOMAIN dict.assignees |->
        IF event.login = dict.assignees[k].login
        THEN [dict.assignees[k] EXCEPT
                 !.created_at = <<parse(event.created_at)>>]
        ELSE dict.assignees[k]]]

RECURSIVE reconcile_page(_, _)
\* The loop over one timeline page: events that are not "assigned" are
\* skipped, every other one updates the dictionary.
reconcile_page(dict, page) ==
    IF page = <<>> THEN dict
    ELSE reconcile_page(
            IF Head(page).event # "assigned" THEN dict
            ELSE get_pull_request_dict_with_timestamp(dict, Head(page)),
            Tail(page))

\* Whether the page binds updated_pr_dict: it holds an "assigned" event.
binds_updated_pr_dict(page) ==
    \E k \in DOMAIN page : page[k].event = "assigned"

\* page_number += 1
next_page_skips(p) == p + 2
next_page(p) == p + 1

RECURSIVE first_with_reviewer(_, _)
\* The first pull request at or after position j that passes
\* is_reviewer_assigned, 0 when there is none.
first_with_reviewer(prs, j) ==
    IF j > Len(prs) THEN 0
    ELSE IF is_reviewer_assigned(prs[j]) THEN j
    ELSE first_with_reviewer(prs, j + 1)

\* The (pull request, reviewer) the evaluation loops visit after (j, k);
\* <<0, 0>> when the loops are over.
next_reviewer(prs, j, k) ==
    IF k < Len(prs[j].assignees) THEN <<j, k + 1>>
    ELSE LET n == first_with_reviewer(prs, j + 1)
         IN  IF n = 0 THEN <<0, 0>> ELSE <<n, 1>>

\* The answers of the server to a timeline request: a failure, or a page
\* of the timeline, which is finite (an empty page past its end).  The
\* events come in any order: the code does not look at their order.
TimelineResponses ==
    {[status |-> "fail", items |-> <<>>]}
    \cup {[status |-> "ok", items |-> p] :
            p \in SeqsUpTo(Events, MaxEvents - Len(timeline))}

\* One request of the timeline loop, with its response.
timeline_fetch_page ==
    /\ pc = "timeline"
    /\ UNCHANGED <<token, follows_op, op, args, now, reviewer_to_assigned_prs,
                   disc_vars>>
    /\ \E r \in TimelineResponses :
        /\ requests' = Append(requests, Request("timeline", t_page,
                            pr_dict.number, "", "", r.status,
                            r.status = "ok", Len(r.items)))
        /\ IF raise_for_status(r.status)
           THEN /\ Raise("HTTPError", "")
                /\ DiscardFrame
                /\ UNCHANGED <<pr_dict, timeline>>
           ELSE IF Len(r.items) = 0
           THEN \* the loop ends and the object is built
                IF ~updated
                THEN /\ Raise("UnboundLocalError", "updated_pr_dict")
                     /\ DiscardFrame
                     /\ UNCHANGED <<pr_dict, timeline>>
                ELSE LET obj == from_github_response(pr_dict)
                         built == Append(pull_requests, obj)
                         first == first_with_reviewer(built, 1)
                     IN  IF op = "get_pull_request_object_from_dict"
                         THEN /\ Return(obj)
                              /\ DiscardFrame
                              /\ UNCHANGED <<pr_dict, timeline>>
                         ELSE /\ pull_requests' = built
                              /\ UNCHANGED <<outcome, error, retval,
                                             page_number, pr_subset>>
                              /\ timeline' = <<>>
                              /\ t_page' = 1
                              /\ updated' = FALSE
                              /\ IF Len(built) < Len(pr_subset)
                                 THEN /\ pc' = "timeline"
                                      /\ pr_dict' = pr_subset[Len(built) + 1]
                                      /\ UNCHANGED <<pr_idx, rev_idx>>
                                 ELSE /\ pr_dict' = pr_dict
                                      /\ pc' = IF first = 0 THEN "pr_list"
                                               ELSE "evaluate"
                                      /\ pr_idx' = first
                                      /\ rev_idx' = IF first = 0 THEN 0 ELSE 1
           ELSE \* a page of events
                /\ pr_dict' = reconcile_page(pr_dict, r.items)
                /\ updated' = (updated \/ binds_updated_pr_dict(r.items))
                /\ timeline' = timeline \o r.items
                /\ t_page' = next_page(t_page)
                /\ UNCHANGED <<pc, outcome, error, retval, page_number,
                               pr_subset, pull_requests, pr_idx, rev_idx>>

(***************************************************************************)
(* get_prs_assigned_to_reviewers: the scan.                                *)
(***************************************************************************)
\* The condition under which a pull request is added to a reviewer's list:
\* the reviewer is not the author and has waited at least the threshold.
\* ts is reviewer.assigned_on_timestamp, clock the value of datetime.now.
reviewer_is_overdue_self(username, author, ts, clock, hours) ==
    clock - ts >= timedelta_hours(hours)
reviewer_is_overdue_strict(username, author, ts, clock, hours) ==
    username # author /\ clock - ts > timedelta_hours(hours)
reviewer_is_overdue(username, author, ts, clock, hours) ==
    username # author /\ clock - ts >= timedelta_hours(hours)

\* The answers of the server to a pull request list request: the list of
\* open pull requests is finite.
PRListResponses ==
    {[status |-> "fail", items |-> <<>>]}
    \cup {[status |-> "ok", items |-> p] :
            p \in PRPages(MaxPRs - ItemsServed(requests, "pr_list"))}

\* One request of the pull request list loop, with its response.
pr_list_fetch_page ==
    /\ pc = "pr_list"
    /\ UNCHANGED <<token, follows_op, op, args, now, reviewer_to_assigned_prs,
                   timeline, disc_vars>>
    /\ \E r \in PRListResponses :
        /\ requests' = Append(requests, Request("pr_list", page_number, 0,
                            "", "", r.status, r.status = "ok",
                            Len(r.items)))
        /\ IF raise_for_status(r.status)
           THEN /\ Raise("HTTPError", "")
                /\ DiscardFrame
                /\ UNCHANGED pr_dict
           ELSE IF Len(r.items) = 0
           THEN /\ Return(reviewer_to_assigned_prs)
                /\ DiscardFrame
                /\ UNCHANGED pr_dict
           ELSE /\ page_number' = next_page(page_number)
                /\ pr_subset' = r.items
                /\ pull_requests' = <<>>
                /\ pr_dict' = r.items[1]
                /\ t_page' = 1
                /\ updated' = FALSE
                /\ pc' = "timeline"
                /\ UNCHANGED <<outcome, error, retval, pr_idx, rev_idx>>

\* reviewer_to_assigned_prs[reviewer.username].append(pull_request)
append_in_front(prs, pr) == <<pr>> \o prs
append(prs, pr) == Append(prs, pr)

\* One pass of the inner loop: the clock is read for the reviewer at
\* (pr_idx, rev_idx) and the pull request is appended if overdue.
evaluate_reviewer ==
    /\ pc = "evaluate"
    /\ UNCHANGED <<token, follows_op, op, args, requests, pr_dict, timeline, disc_vars>>
    /\ \E clock \in ScanClock :
        LET pr == pull_requests[pr_idx]
            reviewer == pr.assignees[rev_idx]
            next == next_reviewer(pull_requests, pr_idx, rev_idx)
        IN  /\ now' = clock
            /\ IF reviewer.assigned_on_timestamp = <<>>
               THEN \* now - None
                    /\ Raise("TypeError", "assigned_on_timestamp")
                    /\ DiscardFrame
                    /\ UNCHANGED reviewer_to_assigned_prs
               ELSE /\ reviewer_to_assigned_prs' =
                         IF reviewer_is_overdue(reviewer.username,
                                pr.author_username,
                                reviewer.assigned_on_timestamp[1], clock,
                                args.hours)
                         THEN [reviewer_to_assigned_prs EXCEPT
                                  ![reviewer.username] = append(@, pr)]
                         ELSE reviewer_to_assigned_prs
                    /\ pr_idx' = next[1]
                    /\ rev_idx' = next[2]
                    /\ pc' = IF next[1] = 0 THEN "pr_list" ELSE "evaluate"
                    /\ UNCHANGED <<outcome, error, retval, page_number,
                                   pr_subset, pull_requests, t_page,
                                   updated>>

(***************************************************************************)
(* _get_discussion_data: the two dependent GraphQL lookups.                *)
(***************************************************************************)
\* The bodies of an answer that do not hold the queried nodes: a JSON
\* object without the key "data" (an error message), a JSON object whose
\* "data", or the repository in it, is null (a GraphQL error), and a body
\* that is not JSON.
ErrorBodies == {"no_data_key", "null_data", "not_json"}

\* The answers of the server to a GraphQL query: a status, and a body
\* that holds the queried nodes or is one of the error bodies.  The
\* status and the body are independent of each other.
GraphQLResponses(Nodes, max) ==
    {[status |-> st, body |-> b, nodes |-> <<>>] :
        st \in {"ok", "fail"}, b \in ErrorBodies}
    \cup {[status |-> st, body |-> "nodes", nodes |-> n] :
            st \in {"ok", "fail"}, n \in SeqsUpTo(Nodes, max)}

\* What reading the nodes of a body raises: response.json() fails on a
\* body that is not JSON, data['data'] on a missing key, and the
\* subscripts after it on a null.
body_error(body) ==
    CASE body = "not_json" -> "JSONDecodeError"
      [] body = "no_data_key" -> "KeyError"
      [] body = "null_data" -> "TypeError"
      [] OTHER -> ""

\* The answers to a mutation: done, refused in the body of a 200 answer
\* (a GraphQL error), or a non-success status.
MutationResponses ==
    {[status |-> "ok", data |-> TRUE], [status |-> "ok", data |-> FALSE],
     [status |-> "fail", data |-> FALSE]}

RECURSIVE first_category_or_any(_, _)
first_category_or_any(categories, name) ==
    IF categories = <<>> THEN None
    ELSE IF Head(categories).name = name \/ Len(categories) = 1
         THEN Head(categories).id
    ELSE first_category_or_any(Tail(categories), name)

RECURSIVE find_category_id(_, _)
\* The loop over the categories: the id of the first one with the name,
\* None when there is none.
find_category_id(categories, name) ==
    IF categories = <<>> THEN None
    ELSE IF Head(categories).name = name THEN Head(categories).id
    ELSE find_category_id(Tail(categories), name)

find_last_discussion(discussions, title, k) ==
    LET matches == {i \in k..Len(discussions) : discussions[i].title = title}
    IN  IF matches = {} THEN 0
        ELSE CHOOSE i \in matches : \A j \in matches : j <= i

RECURSIVE find_discussion(_, _, _)
\* The loop over the discussions: the position of the first one with the
\* title at or after position k, 0 when there is none.
find_discussion(discussions, title, k) ==
    IF k > Len(discussions) THEN 0
    ELSE IF discussions[k].title = title THEN k
    ELSE find_discussion(discussions, title, k + 1)

\* The first query, for the discussion categories.  Its status is not
\* checked: the body is read, and its nodes used, whatever the status.
query_discussion_categories ==
    /\ pc = "categories"
    /\ UNCHANGED <<token, follows_op, op, args, now, scan_vars, tl_vars, discussion_id,
                   discussion_number, comment_ids, del_idx>>
    /\ \E r \in GraphQLResponses(Categories, MaxNodes) :
        LET id == find_category_id(r.nodes, args.category)
        IN  /\ requests' = Append(requests, Request("categories", 0, 0, "",
                                "", r.status, r.body = "nodes",
                                Len(r.nodes)))
            /\ response' = r.nodes
            /\ IF r.body \in ErrorBodies
               THEN Raise(body_error(r.body), "") /\ UNCHANGED category_id
               ELSE IF id = None
               THEN /\ Raise("CategoryMissing", args.category)
                    /\ UNCHANGED category_id
               ELSE /\ category_id' = id
                    /\ pc' = "discussions"
                    /\ UNCHANGED <<outcome, error, retval>>

\* The second query, for the discussions of the category found.
query_discussions ==
    /\ pc = "discussions"
    /\ UNCHANGED <<token, follows_op, op, args, now, scan_vars, tl_vars, category_id,
                   comment_ids, del_idx>>
    /\ \E r \in GraphQLResponses(Discussions, MaxNodes) :
        LET k == find_discussion(r.nodes, args.title, 1)
        IN  /\ requests' = Append(requests, Request("discussions", 0, 0,
                                category_id, "", r.status, r.body = "nodes",
                                Len(r.nodes)))
            /\ response' = r.nodes
            /\ IF r.body \in ErrorBodies
               THEN /\ Raise(body_error(r.body), "")
                    /\ UNCHANGED <<discussion_id, discussion_number>>
               ELSE IF k = 0
               THEN /\ Raise("DiscussionNotFound", args.title)
                    /\ UNCHANGED <<discussion_id, discussion_number>>
               ELSE /\ discussion_id' = r.nodes[k].id
                    /\ discussion_number' = r.nodes[k].number
                    /\ pc' = IF op = "delete_discussion_comments"
                             THEN "comments" ELSE "post"
                    /\ UNCHANGED <<outcome, error, retval>>

(***************************************************************************)
(* delete_discussion_comments and add_discussion_comments.                 *)
(***************************************************************************)
RECURSIVE old_comment_ids_inclusive(_, _)
old_comment_ids_inclusive(comments, before) ==
    IF comments = <<>> THEN <<>>
    ELSE IF Head(comments).createdAt <= before
         THEN <<Head(comments).id>>
              \o old_comment_ids_inclusive(Tail(comments), before)
    ELSE <<>>

RECURSIVE old_comment_ids(_, _)
\* The loop of _get_old_comment_ids: the ids of the comments created
\* before the boundary string, up to the first comment that is not.
old_comment_ids(comments, before) ==
    IF comments = <<>> THEN <<>>
    ELSE IF Head(comments).createdAt < before
         THEN <<Head(comments).id>>
              \o old_comment_ids(Tail(comments), before)
    ELSE <<>>

\* _get_old_comment_ids: the comment list request, then the clock is read
\* and the old comments are selected; the deletion loop follows.
_get_old_comment_ids ==
    /\ pc = "comments"
    /\ UNCHANGED <<token, follows_op, op, args, scan_vars, tl_vars, category_id,
                   discussion_id, discussion_number>>
    /\ \E r \in GraphQLResponses(Comments, MaxComments), clock \in DeleteClock :
        LET ids == old_comment_ids(r.nodes,
                       _get_past_time(clock, DELETE_COMMENTS_BEFORE_IN_DAYS))
        IN  /\ requests' = Append(requests, Request("comments", 0,
                                discussion_number, "", "", r.status,
                                r.body = "nodes",
                                Len(r.nodes)))
            /\ IF raise_for_status(r.status)
               THEN /\ Raise("HTTPError", "")
                    /\ UNCHANGED <<now, response, comment_ids, del_idx>>
               ELSE IF r.body \in ErrorBodies
               THEN /\ Raise(body_error(r.body), "")
                    /\ UNCHANGED <<now, response, comment_ids, del_idx>>
               ELSE /\ now' = clock
                    /\ response' = r.nodes
                    /\ comment_ids' = ids
                    /\ IF ids = <<>>
                       THEN Return(<<>>) /\ UNCHANGED del_idx
                       ELSE /\ pc' = "delete"
                            /\ del_idx' = 1
                            /\ UNCHANGED <<outcome, error, retval>>

\* for comment_id in comment_ids: the comment of the k-th pass.
comment_id_reversed(ids, k) == ids[Len(ids) + 1 - k]
comment_id(ids, k) == ids[k]

\* _delete_comment(comment_id): one pass of the deletion loop.
_delete_comment ==
    /\ pc = "delete"
    /\ UNCHANGED <<token, follows_op, op, args, now, scan_vars, tl_vars, response,
                   category_id, discussion_id, discussion_number,
                   comment_ids>>
    /\ \E r \in MutationResponses :
        /\ requests' = Append(requests, Request("delete", 0, 0,
                            comment_id(comment_ids, del_idx), "", r.status,
                            r.data, 0))
        /\ IF raise_for_status(r.status)
           THEN Raise("HTTPError", "") /\ UNCHANGED del_idx
           ELSE /\ del_idx' = del_idx + 1
                /\ IF del_idx = Len(comment_ids)
                   THEN Return(<<>>)
                   ELSE UNCHANGED <<pc, outcome, error, retval>>

\* The variables of the add-comment mutation.
post_comment_variables_blank(id, message) ==
    [discussion_id |-> id, comment |-> ""]
post_comment_variables(id, message) ==
    [discussion_id |-> id, comment |-> message]

\* _post_comment(discussion_id, message)
_post_comment ==
    /\ pc = "post"
    /\ UNCHANGED <<token, follows_op, op, args, now, scan_vars, tl_vars, disc_vars>>
    /\ \E r \in MutationResponses :
        /\ LET variables == post_comment_variables(discussion_id,
                                                   args.message)
           IN  requests' = Append(requests, Request("add_comment", 0, 0,
                               variables.discussion_id, variables.comment,
                               r.status, r.data, 0))
        /\ IF raise_for_status(r.status)
           THEN Raise("HTTPError", "")
           ELSE Return(<<>>)

(***************************************************************************)
(* The calls of the public operations.                                     *)
(***************************************************************************)
get_prs_assigned_to_reviewers ==
    \E h \in WaitingHours :
        Call("get_prs_assigned_to_reviewers", [NoArgs EXCEPT !.hours = h],
             NoPR, "pr_list")

get_pull_request_object_from_dict ==
    \E d \in PRDicts :
        Call("get_pull_request_object_from_dict", NoArgs, d, "timeline")

delete_discussion_comments ==
    \E c \in RequestedCategories, t \in RequestedTitles :
        Call("delete_discussion_comments",
             [NoArgs EXCEPT !.category = c, !.title = t], NoPR, "categories")

add_discussion_comments ==
    \E c \in RequestedCategories, t \in RequestedTitles, m \in Messages :
        Call("add_discussion_comments",
             [NoArgs EXCEPT !.category = c, !.title = t, !.message = m],
             NoPR, "categories")

Next ==
    \/ init_service
    \/ get_prs_assigned_to_reviewers
    \/ get_pull_request_object_from_dict
    \/ delete_discussion_comments
    \/ add_discussion_comments
    \/ pr_list_fetch_page
    \/ timeline_fetch_page
    \/ evaluate_reviewer
    \/ query_discussion_categories
    \/ query_discussions
    \/ _get_old_comment_ids
    \/ _delete_comment
    \/ _post_comment

Spec == Init /\ [][Next]_vars

(***************************************************************************)
(* Properties.                                                             *)
(***************************************************************************)
\* The positions of the "assigned" events of a login in a list of events.
AssignedAt(events, login) ==
    {i \in DOMAIN events :
        events[i].event = "assigned" /\ events[i].login = login}
AssignedTimes(events, login) ==
    {events[i].created_at : i \in AssignedAt(events, login)}
\* The creation time of the chronologically last "assigned" event.
LastAssignedOn(events, login) ==
    CHOOSE t \in AssignedTimes(events, login) :
        \A u \in AssignedTimes(events, login) : u <= t

\* The creation time of the "assigned" event of a login that comes last
\* in a list of events (the feed order: by page, then by position).
LastSeenAssignedOn(events, login) ==
    LET at == AssignedAt(events, login)
    IN  events[CHOOSE i \in at : \A j \in at : j <= i].created_at

\* C1 (as amended): for every reviewer of a pull request with more than
\* one "assigned" event in the timeline fetched (over all its pages), the
\* timestamp stored by get_pull_request_object_from_dict, in the
\* dictionary after each page and in the object returned, is the creation
\* time of the event that comes last in the feed, never an earlier one
\* of the feed.
C1_LastSeenAssignmentStored ==
    /\ (pc = "timeline"
        \/ (op = "get_pull_request_object_from_dict" /\ outcome = "returned"))
       => \A k \in DOMAIN pr_dict.assignees :
            Cardinality(AssignedAt(timeline, pr_dict.assignees[k].login)) > 1
            => pr_dict.assignees[k].created_at =
                 <<parse(LastSeenAssignedOn(timeline,
                                            pr_dict.assignees[k].login))>>
    /\ (op = "get_pull_request_object_from_dict" /\ outcome = "returned")
       => \A k \in DOMAIN retval.assignees :
            Cardinality(AssignedAt(timeline, retval.assignees[k].username)) > 1
            => retval.assignees[k].assigned_on_timestamp =
                 <<parse(LastSeenAssignedOn(timeline,
                                            retval.assignees[k].username))>>

\* C1 (as stated): for every reviewer of a pull request with more than one
\* "assigned" event in the timeline fetched (over all its pages), the
\* timestamp stored by get_pull_request_object_from_dict, in the
\* dictionary after each page and in the object returned, is the creation
\* time of the chronologically last of these events.
C1_LastAssignmentStored ==
    /\ (pc = "timeline"
        \/ (op = "get_pull_request_object_from_dict" /\ outcome = "returned"))
       => \A k \in DOMAIN pr_dict.assignees :
            Cardinality(AssignedAt(timeline, pr_dict.assignees[k].login)) > 1
            => pr_dict.assignees[k].created_at =
                 <<parse(LastAssignedOn(timeline,
                                        pr_dict.assignees[k].login))>>
    /\ (op = "get_pull_request_object_from_dict" /\ outcome = "returned")
       => \A k \in DOMAIN retval.assignees :
            Cardinality(AssignedAt(timeline, retval.assignees[k].username)) > 1
            => retval.assignees[k].assigned_on_timestamp =
                 <<parse(LastAssignedOn(timeline,
                                        retval.assignees[k].username))>>

\* A pull request object was returned whose reviewer was assigned twice, at
\* different times, on two pages of the timeline, and holds the time of
\* the event of the second page.
C1_Witness ==
    /\ op = "get_pull_request_object_from_dict" /\ outcome = "returned"
    /\ Len(requests) = 3
    /\ \E k \in DOMAIN retval.assignees :
        LET login == retval.assignees[k].username
        IN  /\ AssignedAt(timeline, login) = {1, 2}
            /\ timeline[1].created_at # timeline[2].created_at
            /\ retval.assignees[k].assigned_on_timestamp =
                 <<parse(timeline[2].created_at)>>

\* C2: a reviewer of a pull request (not its author) for whom the fetched
\* timeline holds no "assigned" event never makes
\* get_prs_assigned_to_reviewers raise: the scan does not end with an
\* error caused by the missing timestamp.
C2_MissingEventNeverRaises ==
    ~ /\ op = "get_prs_assigned_to_reviewers"
      /\ outcome = "raised"
      /\ \/ error.type = "TypeError"
         \/ /\ error.type = "UnboundLocalError"
            /\ \E k \in DOMAIN pr_dict.assignees :
                 /\ pr_dict.assignees[k].login # pr_dict.user
                 /\ AssignedAt(timeline, pr_dict.assignees[k].login) = {}

\* C3: while no credential is stored, every operation called has failed at
\* once with the not-initialized error and has issued no request.
C3_NoCredentialNoRequest ==
    token = None
    => /\ pc = "idle"
       /\ requests = <<>>
       /\ op \notin {"", "init_service"}
          => (outcome = "raised" /\ error.type = "NotInitialized")

\* The scan was called without a credential, and was refused.
C3_Witness ==
    /\ token = None
    /\ op = "get_prs_assigned_to_reviewers"
    /\ outcome = "raised"
    /\ requests = <<>>

\* The pull requests of a mapping, by reviewer, never hold one whose
\* author is that reviewer.
NoSelfReview(mapping) ==
    \A u \in Users : \A k \in DOMAIN mapping[u] :
        mapping[u][k].author_username # u

\* C4: no reviewer's list, in the mapping being built and in the mapping
\* returned, holds a pull request whose author is that reviewer.
C4_AuthorNeverOverdue ==
    /\ NoSelfReview(reviewer_to_assigned_prs)
    /\ (op = "get_prs_assigned_to_reviewers" /\ outcome = "returned")
       => NoSelfReview(retval)

\* A page was evaluated that held a pull request assigned to its own author
\* for at least the threshold, and the author's list does not hold it.
C4_Witness ==
    /\ op = "get_prs_assigned_to_reviewers" /\ pc = "pr_list"
    /\ \E j \in DOMAIN pull_requests :
       \E k \in DOMAIN pull_requests[j].assignees :
        LET pr == pull_requests[j]
            reviewer == pr.assignees[k]
        IN  /\ reviewer.username = pr.author_username
            /\ reviewer.assigned_on_timestamp # <<>>
            /\ now - reviewer.assigned_on_timestamp[1]
                 >= timedelta_hours(args.hours)
            /\ \A i \in DOMAIN reviewer_to_assigned_prs[reviewer.username] :
                 reviewer_to_assigned_prs[reviewer.username][i] # pr

\* C5: the evaluation of a reviewer who is not the author and has a
\* timestamp appends the pull request to the reviewer's list exactly when
\* the clock read minus the timestamp is at least the threshold, and
\* changes nothing of the mapping otherwise.
C5_OverdueFromThreshold ==
    [][pc = "evaluate" =>
        LET pr == pull_requests[pr_idx]
            reviewer == pr.assignees[rev_idx]
        IN  (reviewer.assigned_on_timestamp # <<>>
             /\ reviewer.username # pr.author_username)
            => IF now' - reviewer.assigned_on_timestamp[1]
                    >= timedelta_hours(args.hours)
               THEN reviewer_to_assigned_prs' =
                      [reviewer_to_assigned_prs EXCEPT
                          ![reviewer.username] = Append(@, pr)]
               ELSE reviewer_to_assigned_prs' = reviewer_to_assigned_prs
      ]_vars

\* The only reviewer of the first page had waited exactly the threshold
\* when evaluated, and the pull request is in the reviewer's list.
C5_Witness ==
    /\ op = "get_prs_assigned_to_reviewers" /\ pc = "pr_list"
    /\ Len(requests) = ItemsServed(requests, "timeline") + 2
    /\ Len(pull_requests) = 1
    /\ Len(pull_requests[1].assignees) = 1
    /\ LET pr == pull_requests[1]
           reviewer == pr.assignees[1]
       IN  /\ reviewer.username # pr.author_username
           /\ now - reviewer.assigned_on_timestamp[1]
                = timedelta_hours(args.hours)
           /\ reviewer_to_assigned_prs[reviewer.username] = <<pr>>

\* C6: the pull request list is requested at pages 1, 2, 3, ..., each
\* once, and a page without items is its last request; the timeline of a
\* pull request is requested at pages 1, 2, 3, ..., each once, and after
\* a page without items no further page of it is requested (the next
\* timeline request is page 1 of another reconciliation).
C6_PagesConsecutive ==
    \A i \in DOMAIN requests :
        LET r == requests[i]
        IN  /\ r.kind = "pr_list"
               => /\ r.page = 1 + Cardinality({j \in 1..(i - 1) :
                                      requests[j].kind = "pr_list"})
                  /\ \A j \in 1..(i - 1) :
                        requests[j].kind = "pr_list" => requests[j].count > 0
                  /\ r.count = 0 => i = Len(requests)
            /\ r.kind = "timeline"
               => IF i > 1 /\ requests[i - 1].kind = "timeline"
                     /\ requests[i - 1].count > 0
                  THEN /\ r.page = requests[i - 1].page + 1
                       /\ r.number = requests[i - 1].number
                  ELSE r.page = 1

\* A scan returned after requesting three pages of the pull request list
\* and three pages of one timeline.
C6_Witness ==
    /\ op = "get_prs_assigned_to_reviewers" /\ outcome = "returned"
    /\ \E i \in DOMAIN requests :
        requests[i].kind = "pr_list" /\ requests[i].page = 3
    /\ \E i \in DOMAIN requests :
        requests[i].kind = "timeline" /\ requests[i].page = 3

\* The comment list of the running deletion has been fetched and the clock
\* read: response holds the comments fetched, now the clock value.
CommentsFetched == op = "delete_discussion_comments" /\ now # 0

\* The length of the longest prefix of the comments that are all Old.
OldPrefixLen(comments, Old(_)) ==
    CHOOSE n \in 0..Len(comments) :
        /\ \A k \in 1..n : Old(comments[k])
        /\ n < Len(comments) => ~Old(comments[n + 1])

\* C7 (as amended): the ids selected are, in fetched order, the ids of the
\* longest prefix of the fetched comments created strictly before the
\* second in which (now - retention period) falls.
C7_OldPrefixOfWholeSeconds ==
    CommentsFetched =>
        LET Old(c) == c.createdAt <
                strftime(now - timedelta_days(DELETE_COMMENTS_BEFORE_IN_DAYS))
            n == OldPrefixLen(response, Old)
        IN  comment_ids = [k \in 1..n |-> response[k].id]

\* C7 (as stated): the ids selected are the ids of the longest prefix of
\* the fetched comments created strictly before (now - retention period).
C7_OldPrefixOfInstant ==
    CommentsFetched =>
        LET Old(c) == parse(c.createdAt) <
                now - timedelta_days(DELETE_COMMENTS_BEFORE_IN_DAYS)
            n == OldPrefixLen(response, Old)
        IN  comment_ids = [k \in 1..n |-> response[k].id]

\* Three comments were fetched: an old one, one created in the second of
\* the boundary, and an old one again; only the first was selected.
C7_Witness ==
    /\ CommentsFetched
    /\ Len(response) = 3
    /\ LET before == strftime(now
                        - timedelta_days(DELETE_COMMENTS_BEFORE_IN_DAYS))
       IN  /\ response[1].createdAt < before
           /\ response[2].createdAt = before
           /\ response[3].createdAt < before
    /\ comment_ids = <<response[1].id>>

\* C8: a request of any kind answered with a non-success status is the
\* last request of its operation, which ends with the transport error.
C8_FailedRequestIsFatal ==
    \A i \in DOMAIN requests :
        requests[i].status = "fail"
        => /\ i = Len(requests)
           /\ pc = "idle"
           /\ outcome = "raised"
           /\ error.type = "HTTPError"

\* C9: when the categories fetched hold none with the requested name, the
\* operation ends with the category error naming it and the category query
\* is its only request; when the discussions fetched hold none with the
\* requested title, it ends with the discussion error naming the title
\* after two requests; in both cases no comment list request and no
\* mutation is issued.
C9_NotFoundEndsOperation ==
    LET n == Len(requests)
    IN  /\ (n >= 1 /\ requests[n].kind = "categories" /\ requests[n].data
            /\ \A k \in DOMAIN response : response[k].name # args.category)
           => /\ pc = "idle" /\ outcome = "raised"
              /\ error = [type |-> "CategoryMissing",
                          detail |-> args.category]
              /\ n = 1
        /\ (n >= 1 /\ requests[n].kind = "discussions" /\ requests[n].data
            /\ \A k \in DOMAIN response : response[k].title # args.title)
           => /\ pc = "idle" /\ outcome = "raised"
              /\ error = [type |-> "DiscussionNotFound",
                          detail |-> args.title]
              /\ n = 2
        /\ error.type \in {"CategoryMissing", "DiscussionNotFound"}
           => \A i \in DOMAIN requests :
                requests[i].kind \notin {"comments", "delete", "add_comment"}
        /\ error.type = "CategoryMissing"
           => \A i \in DOMAIN requests : requests[i].kind # "discussions"

\* A deletion fetched two categories, neither with the requested name, and
\* ended with the category error.
C9_Witness ==
    /\ op = "delete_discussion_comments"
    /\ error.type = "CategoryMissing"
    /\ Len(response) = 2
    /\ Len(requests) = 1

\* C10: a scan one of whose page requests got a non-success status has
\* ended with the transport error and returned nothing.
C10_FailedPageReturnsNoMapping ==
    (op = "get_prs_assigned_to_reviewers"
     /\ \E i \in DOMAIN requests : requests[i].status = "fail")
    => /\ pc = "idle"
       /\ outcome = "raised"
       /\ error.type = "HTTPError"
       /\ retval = <<>>

\* A scan ended with the transport error after it had put a pull request
\* in a reviewer's list.
C10_Witness ==
    /\ op = "get_prs_assigned_to_reviewers"
    /\ outcome = "raised" /\ error.type = "HTTPError"
    /\ \E u \in Users : reviewer_to_assigned_prs[u] # <<>>

\* C11: a call of init_service with an absent or empty token ends at once
\* with the invalid-token error and leaves the stored credential as it
\* was (absent if the service was never initialized, the earlier token
\* otherwise); the stored credential is never the empty string.
C11_RejectedTokenKeepsCredential ==
    /\ [][(pc = "idle" /\ op' = "init_service"
            /\ args'.token \in {None, ""})
           => /\ token' = token
              /\ pc' = "idle"
              /\ outcome' = "raised"
              /\ error'.type = "InvalidToken"]_vars
    /\ [](token # "")

\* The service holds a token and its last call, init_service with the
\* empty string, was rejected.
C11_Witness ==
    /\ op = "init_service" /\ args.token = ""
    /\ outcome = "raised"
    /\ token \in Tokens

\* C12: the requests of a deletion after its three lookups are the delete
\* mutations, one per stale comment in the order of the list, each issued
\* after the previous one succeeded; a delete mutation answered with a
\* non-success status is the last request (no later deletion, no request
\* undoing the earlier ones) and the operation has ended with the
\* transport error; the operation returns only after the whole list.
C12_DeletionsInOrderFailFast ==
    op = "delete_discussion_comments" =>
        /\ \A i \in DOMAIN requests :
              /\ i > 3 => requests[i].kind = "delete"
              /\ requests[i].kind = "delete"
                 => /\ i > 3 /\ i - 3 <= Len(comment_ids)
                    /\ requests[i].id = comment_ids[i - 3]
                    /\ requests[i - 1].status = "ok"
                    /\ requests[i].status = "fail"
                       => /\ i = Len(requests)
                          /\ pc = "idle" /\ outcome = "raised"
                          /\ error.type = "HTTPError"
        /\ pc = "delete" => Len(requests) = 3 + (del_idx - 1)
        /\ (outcome = "returned" /\ CommentsFetched)
           => Len(requests) = 3 + Len(comment_ids)

\* Three comments were stale, the first two distinct; the first deletion
\* succeeded, the second failed and the third was never issued.
C12_Witness ==
    /\ op = "delete_discussion_comments"
    /\ Len(comment_ids) = 3 /\ comment_ids[1] # comment_ids[2]
    /\ Len(requests) = 5
    /\ requests[4].kind = "delete" /\ requests[4].status = "ok"
    /\ requests[5].kind = "delete" /\ requests[5].status = "fail"
    /\ outcome = "raised"

TopLevelOperations ==
    {"get_prs_assigned_to_reviewers", "delete_discussion_comments",
     "add_discussion_comments"}

\* C13: no step of a top-level operation, its call included, changes the
\* stored credential; and whatever ran before, the call of a top-level
\* operation starts it in the same state: no request issued, every local
\* at its initial value, nothing left of the earlier operations.  What it
\* requests and returns then depends on its arguments and the answers of
\* the server only.
C13_OperationsIndependent ==
    [][/\ op' \in TopLevelOperations => token' = token
       /\ (pc = "idle" /\ op' \in TopLevelOperations /\ pc' # "idle")
          => /\ requests' = <<>> /\ retval' = <<>> /\ now' = 0
             /\ outcome' = "none" /\ error' = NoError
             /\ page_number' = 1 /\ pr_subset' = <<>>
             /\ pull_requests' = <<>> /\ pr_idx' = 0 /\ rev_idx' = 0
             /\ reviewer_to_assigned_prs' = EmptyMapping
             /\ t_page' = 1 /\ pr_dict' = NoPR /\ updated' = FALSE
             /\ timeline' = <<>> /\ response' = <<>>
             /\ category_id' = None /\ discussion_id' = None
             /\ discussion_number' = 0 /\ comment_ids' = <<>>
             /\ del_idx' = 0
      ]_vars

\* A scan called right after another operation that had issued requests
\* has returned a mapping that is not empty.
C13_Witness ==
    /\ follows_op
    /\ op = "get_prs_assigned_to_reviewers" /\ outcome = "returned"
    /\ \E u \in Users : retval[u] # <<>>

\* C14: a listed pull request without assignees does not stop the scan:
\* while the page requests succeed, the scan has not raised after the
\* timeline of such a pull request was fetched, whether or not it holds
\* an "assigned" event.
C14_UnassignedPullRequestIsSkipped ==
    (/\ op = "get_prs_assigned_to_reviewers"
     /\ pr_dict.number # 0 /\ pr_dict.assignees = <<>>
     /\ requests # <<>>
     /\ requests[Len(requests)].kind = "timeline"
     /\ requests[Len(requests)].number = pr_dict.number
     /\ requests[Len(requests)].status = "ok")
    => outcome # "raised"

\* The numbers of the pull requests discovered by the scan, in discovery
\* order: one per reconciliation started (its first timeline request),
\* which the scan starts page by page and, in a page, by position.
Discovered ==
    LET first == SelectSeq(requests,
                     LAMBDA r : r.kind = "timeline" /\ r.page = 1)
    IN  [k \in DOMAIN first |-> first[k].number]

RECURSIVE IsSubsequence(_, _)
\* Whether a is b with some of its elements left out, the order kept.
IsSubsequence(a, b) ==
    IF a = <<>> THEN TRUE
    ELSE IF b = <<>> THEN FALSE
    ELSE IF Head(a) = Head(b) THEN IsSubsequence(Tail(a), Tail(b))
    ELSE IsSubsequence(a, Tail(b))

\* The pull requests of every reviewer's list are discoveries of the scan
\* that list the reviewer, in discovery order, each discovery at most once.
InDiscoveryOrder(mapping) ==
    \A u \in Users :
        /\ IsSubsequence([k \in DOMAIN mapping[u] |-> mapping[u][k].number],
                         Discovered)
        /\ \A k \in DOMAIN mapping[u] :
              \E a \in DOMAIN mapping[u][k].assignees :
                  mapping[u][k].assignees[a].username = u

\* No list holds a pull request (a number) twice.
AtMostOnce(mapping) ==
    \A u \in Users : \A j, k \in DOMAIN mapping[u] :
        mapping[u][j].number = mapping[u][k].number => j = k

\* C15 (as amended): in the mapping being built and in the mapping
\* returned, every reviewer's list holds pull requests in discovery order
\* (page by page, then by position in the page), once at most for each
\* time the server listed the pull request.
C15_ListsInDiscoveryOrder ==
    op = "get_prs_assigned_to_reviewers"
    => /\ InDiscoveryOrder(reviewer_to_assigned_prs)
       /\ outcome = "returned" => InDiscoveryOrder(retval)

\* C15 (as stated): the lists are in discovery order and no list holds
\* a pull request twice (every reviewer is once among the assignees).
C15_ListsInOrderAtMostOnce ==
    op = "get_prs_assigned_to_reviewers"
    => /\ InDiscoveryOrder(reviewer_to_assigned_prs)
       /\ AtMostOnce(reviewer_to_assigned_prs)
       /\ outcome = "returned"
          => (InDiscoveryOrder(retval) /\ AtMostOnce(retval))

\* A scan returned a mapping in which a reviewer has two pull requests,
\* the first listed on page 1 and the second on page 2.
C15_Witness ==
    /\ op = "get_prs_assigned_to_reviewers" /\ outcome = "returned"
    /\ \E i \in DOMAIN requests :
          requests[i].kind = "pr_list" /\ requests[i].page = 3
    /\ \E u \in Users :
          /\ Len(retval[u]) = 2
          /\ retval[u][1].number # retval[u][2].number
          /\ Discovered = <<retval[u][1].number, retval[u][2].number>>

\* C16: an add-comment mutation is the third request of its operation,
\* after a category query and a discussions query that both returned
\* their data and found the category and the discussion (the lookup
\* returned; the status of its answers is not part of that); it carries the
\* id of the discussion found and the message of the caller as given;
\* an add_discussion_comments call that returned has issued exactly these
\* three requests.
C16_PostAfterBothLookups ==
    /\ \A i \in DOMAIN requests :
          requests[i].kind = "add_comment"
          => /\ i = 3 /\ Len(requests) = 3
             /\ op = "add_discussion_comments"
             /\ requests[1].kind = "categories"
             /\ requests[1].data
             /\ requests[2].kind = "discussions"
             /\ requests[2].data
             /\ requests[2].id = category_id /\ category_id # None
             /\ \E k \in DOMAIN response :
                   /\ response[k].title = args.title
                   /\ response[k].id = requests[i].id
             /\ requests[i].id = discussion_id
             /\ requests[i].body = args.message
    /\ (op = "add_discussion_comments" /\ outcome = "returned")
       => /\ Len(requests) = 3
          /\ requests[3].kind = "add_comment"
          /\ requests[3].status = "ok"

\* An add_discussion_comments call returned after it had found the
\* discussion in second place among the two fetched.
C16_Witness ==
    /\ op = "add_discussion_comments" /\ outcome = "returned"
    /\ Len(requests) = 3 /\ requests[3].body \in Messages
    /\ Len(response) = 2
    /\ response[1].title # args.title
    /\ requests[3].id = response[2].id

\* The position of the first element of a list that satisfies Match, 0
\* when there is none.
FirstMatch(list, Match(_)) ==
    IF \E k \in DOMAIN list : Match(list[k])
    THEN CHOOSE k \in DOMAIN list :
            Match(list[k]) /\ \A j \in 1..(k - 1) : ~Match(list[j])
    ELSE 0

\* C17: when the category lookup has succeeded, the category id kept is
\* the id of the first category fetched whose name equals the requested
\* name; when the discussion lookup has succeeded, the discussions were
\* queried for that category, and the id and the number kept are those of
\* one discussion, the first fetched whose title equals the requested
\* title.  Equality is of the whole string.
C17_FirstExactMatch ==
    /\ pc = "discussions"
       => LET k == FirstMatch(response,
                       LAMBDA c : c.name = args.category)
          IN  k # 0 /\ category_id = response[k].id
    /\ (pc \in {"comments", "post"}
        \/ (op = "add_discussion_comments" /\ Len(requests) = 3))
       => LET k == FirstMatch(response,
                       LAMBDA d : d.title = args.title)
          IN  /\ k # 0
              /\ discussion_id = response[k].id
              /\ discussion_number = response[k].number
              /\ requests[2].kind = "discussions"
              /\ requests[2].id = category_id

\* The lookup succeeded on two discussions with the requested title,
\* of different ids and numbers, and kept the id and number of the first.
C17_Witness ==
    /\ pc \in {"comments", "post"}
    /\ Len(response) = 2
    /\ response[1].title = args.title /\ response[2].title = args.title
    /\ response[1].id # response[2].id
    /\ response[1].number # response[2].number
    /\ discussion_id = response[1].id
    /\ discussion_number = response[1].number

\* C18: a deletion issues one comment list request at most; its j-th
\* delete mutation is for the j-th comment of the answer to that request,
\* a comment created strictly before (now - 60 days), now being the clock
\* read after the answer; so no comment created at or after that instant
\* is deleted, and the delete mutations are no more than the comments of
\* the answer, which the server limits as the query asks.
C18_OnlyOldFetchedCommentsDeleted ==
    op = "delete_discussion_comments" =>
        LET deletes == {i \in DOMAIN requests : requests[i].kind = "delete"}
            lists == {i \in DOMAIN requests : requests[i].kind = "comments"}
        IN  /\ Cardinality(lists) <= 1
            /\ deletes # {} => (CommentsFetched /\ lists = {3})
            /\ \A i \in deletes :
                  /\ i - 3 \in DOMAIN response
                  /\ requests[i].id = response[i - 3].id
                  /\ parse(response[i - 3].createdAt)
                       < now - timedelta_days(DELETE_COMMENTS_BEFORE_IN_DAYS)
            /\ CommentsFetched
               => /\ Cardinality(deletes) <= Len(response)
                  /\ Len(response) <= MaxComments

\* A deletion returned after it had deleted the first comment fetched
\* and kept the second, created at the instant (now - 60 days).
C18_Witness ==
    /\ op = "delete_discussion_comments" /\ outcome = "returned"
    /\ CommentsFetched
    /\ Len(response) >= 2
    /\ parse(response[2].createdAt)
         = now - timedelta_days(DELETE_COMMENTS_BEFORE_IN_DAYS)
    /\ Len(requests) = 4
    /\ requests[4].kind = "delete" /\ requests[4].id = response[1].id

\* C19: a page of timeline events leaves the pull request dictionary as it
\* was but for the timestamps of the assignees named by an "assigned"
\* event of the page: the timestamp of an assignee for whom the page holds
\* no "assigned" event is unchanged (events of other kinds, and "assigned"
\* events for other users, assignees or not, do not touch it), and the
\* timestamp of an assignee named by one becomes the time of the last such
\* event of the page.
C19_OnlyNamedAssigneeChanges ==
    [][(pc = "timeline" /\ Len(timeline') > Len(timeline))
       => LET items == SubSeq(timeline', Len(timeline) + 1, Len(timeline'))
          IN  /\ pr_dict'.number = pr_dict.number
              /\ pr_dict'.user = pr_dict.user
              /\ DOMAIN pr_dict'.assignees = DOMAIN pr_dict.assignees
              /\ \A k \in DOMAIN pr_dict.assignees :
                    LET login == pr_dict.assignees[k].login
                        at == AssignedAt(items, login)
                    IN  /\ pr_dict'.assignees[k].login = login
                        /\ IF at = {}
                           THEN pr_dict'.assignees[k] = pr_dict.assignees[k]
                           ELSE pr_dict'.assignees[k].created_at =
                                  <<parse(items[CHOOSE i \in at :
                                      \A j \in at : j <= i].created_at)>>
      ]_vars

\* The timeline fetched for a pull request of two assignees holds an event
\* of another kind and an "assigned" event for the second assignee: the
\* second has its time, the first has none.
C19_Witness ==
    /\ pc = "timeline"
    /\ Len(pr_dict.assignees) = 2
    /\ Len(timeline) = 2
    /\ timeline[1].event # "assigned"
    /\ timeline[2].event = "assigned"
    /\ timeline[2].login = pr_dict.assignees[2].login
    /\ pr_dict.assignees[1].created_at = <<>>
    /\ pr_dict.assignees[2].created_at = <<parse(timeline[2].created_at)>>

====
